---- MODULE Spec2Model ----
(***************************************************************************)
(* always_ready_future<T>, always_ready_future<void>, detail::try_invoke   *)
(* (always_ready_future.hpp) and the executor clients of saxpy.cpp.        *)
(*                                                                         *)
(* Representation                                                          *)
(*   exception object        an identity e \in Errors                      *)
(*   std::exception_ptr      the identity of the exception it refers to    *)
(*   variant<T,exception_ptr>   <<"T", v>> or <<"exception_ptr", e>>       *)
(*   optional<exception_ptr>    <<>> (disengaged) or <<e>>                 *)
(*   outcome of a call, as the caller sees it:                             *)
(*     <<"void", 0>>                 returned normally, no value           *)
(*     <<"value", v>>                returned the value v                  *)
(*     <<"future", 0>>               returned a future (held in the state) *)
(*     <<"throw_E", e>>              the exception object e is in flight   *)
(*     <<"throw_exception_ptr", e>>  an object of type std::exception_ptr, *)
(*                                   referring to e, is in flight          *)
(*     <<"trap", 0>>                 the program was terminated            *)
(***************************************************************************)
EXTENDS Integers, Sequences, FiniteSets, TLC

\* ---------------------------------------------------------------- bounds
MaxVal == 1      \* values of T are 0..MaxVal
NumErrors == 2   \* distinct exception objects
MaxCalls == 3    \* get()/wait() calls followed on one future
MaxN == 2        \* largest problem size n

Values == 0..MaxVal
Errors == 1..NumErrors

VARIABLES
  kind,        \* which future the client holds: "none", "T" or "void"
  value_,      \* always_ready_future<T>::value_
  exception_,  \* always_ready_future<void>::exception_
  made,        \* what the future was constructed from (history)
  ngets,       \* get() calls on the future so far (history)
  nwaits,      \* wait() calls on the future so far (history)
  lastop,      \* the most recent call
  last,        \* its outcome at the call site
  via,         \* the call that made the future (history)
  by,          \* the callable that call was handed (history)
  fn,          \* the callable handed to the most recent call, when it took one
  x, z,        \* the vectors of saxpy.cpp (y and a are fixed, as in main)
  log          \* invocations made by the most recent bulk call, in order

vars == <<kind, value_, exception_, made, via, by, ngets, nwaits, lastop, last, fn, x, z, log>>

Threw(out) == out[1] \in {"throw_E", "throw_exception_ptr"}

\* ------------------------------------------------- always_ready_future<T>

\* always_ready_future(const T&) / always_ready_future(T&&)
ctor_value(v) == <<"T", v>>

\* always_ready_future(std::exception_ptr)
ctor_exception(e) == <<"exception_ptr", e>>

\* A moved-from T: a valid T whose value is unspecified.
MovedFrom == -1

\* get_visitor::operator()(T&): return std::move(value).  value_ stays a T,
\* moved from.
get_visitor_T(value) ==
  [out |-> <<"value", value>>, after |-> <<"T", MovedFrom>>]

\* A get_visitor that leaves value_ consumed after raising (the source asks
\* "should get() also set value_ to a future_error?"): what get() does not do.
get_visitor_exception_ptr_invalidating(e) ==
  [out |-> <<"throw_exception_ptr", e>>, after |-> <<"T", MovedFrom>>]

\* get_visitor::operator()(std::exception_ptr&): throw e.  The operand of the
\* throw expression is the std::exception_ptr itself.
get_visitor_exception_ptr(e) ==
  [out |-> <<"throw_exception_ptr", e>>, after |-> <<"exception_ptr", e>>]

\* std::experimental::visit(get_visitor(), value_)
visit_get_visitor(val) ==
  IF val[1] = "T" THEN get_visitor_T(val[2])
                  ELSE get_visitor_exception_ptr(val[2])

\* Control reaching the closing brace of a function returning T without a
\* return statement: the behaviour is undefined.  A build either hands the
\* caller whatever the return register holds or ends the program.
FlowOffEnd == {<<"value", g>> : g \in Values} \cup {<<"trap", 0>>}

\* T get() { std::experimental::visit(get_visitor(), value_); }
\* The result of visit is discarded; there is no return statement.
get_T(val) ==
  LET r == visit_get_visitor(val)
  IN  [outs  |-> IF Threw(r.out) THEN {r.out} ELSE FlowOffEnd,
       after |-> r.after]

\* A wait() that consumes the future: what wait() does not do.
wait_T_consuming(val) == <<"T", MovedFrom>>

\* void wait() const {}
wait_T(val) == val

\* ---------------------------------------------- always_ready_future<void>

\* always_ready_future()
ctor_void == <<>>

\* always_ready_future(std::exception_ptr)
ctor_void_exception(e) == <<e>>

\* void get() { if(exception_) throw exception_.value(); }
get_void(exc) ==
  IF exc # <<>> THEN <<"throw_exception_ptr", exc[1]>> ELSE <<"void", 0>>

\* void wait() const {}
wait_void(exc) == exc

\* ------------------------------------------------------------- callables
\* A zero-argument callable is <<body, Result, arg>>:
\*   <<"const", "T", v>>      returns v
\*   <<"noop", "void", 0>>    returns nothing
\*   <<"raise", R, e>>        declared to return R, raises the exception e
\*   <<"saxpy", "void", i>>   the lambda [&]{ z[i] = a * x[i] + y[i]; } of the
\*                            loops of saxpy.cpp

a == 42          \* float a = 42
y == 13          \* std::vector<float> y(n, 13)
XValues == {7, 8}  \* std::vector<float> x(n, 7), and one more value

\* z[i] = a * x[i] + y[i]   (C++ index i is position i + 1 of the sequence)
saxpy_body(i, zz, xx) == [zz EXCEPT ![i + 1] = a * xx[i + 1] + y]

\* f(): the outcome of the call and the vector z after it
Invoke(f, zz, xx) ==
  CASE f[1] = "const" -> [out |-> <<"value", f[3]>>, z |-> zz]
    [] f[1] = "noop"  -> [out |-> <<"void", 0>>, z |-> zz]
    [] f[1] = "raise" -> [out |-> <<"throw_E", f[3]>>, z |-> zz]
    [] f[1] = "saxpy" -> [out |-> <<"void", 0>>, z |-> saxpy_body(f[3], zz, xx)]

\* --------------------------------------------------------- detail::try_invoke
\* The result of a call that returns a future: the outcome at the call site,
\* the future returned (when one is), and z.
NoFuture == [kind |-> "none", value_ |-> <<"T", 0>>, exception_ |-> <<>>]
FutureT(val) == [kind |-> "T", value_ |-> val, exception_ |-> <<>>]
FutureVoid(exc) == [kind |-> "void", value_ |-> <<"T", 0>>, exception_ |-> exc]

\* try_invoke without its catch(...) handler: what try_invoke does not do.
try_invoke_T_uncaught(f, zz, xx) ==
  LET r == Invoke(f, zz, xx)
  IN  IF Threw(r.out)
      THEN [out |-> r.out, fut |-> NoFuture, z |-> r.z]
      ELSE [out |-> <<"future", 0>>, fut |-> FutureT(ctor_value(r.out[2])), z |-> r.z]

\* try { return always_ready_future<Result>(f()); }
\* catch(...) { return always_ready_future<Result>(std::current_exception()); }
try_invoke_T(f, zz, xx) ==
  LET r == Invoke(f, zz, xx)
  IN  IF Threw(r.out)
      THEN [out |-> <<"future", 0>>, fut |-> FutureT(ctor_exception(r.out[2])), z |-> r.z]
      ELSE [out |-> <<"future", 0>>, fut |-> FutureT(ctor_value(r.out[2])), z |-> r.z]

\* try { f(); return always_ready_future<void>(); }
\* catch(...) { return always_ready_future<void>(std::current_exception()); }
try_invoke_void(f, zz, xx) ==
  LET r == Invoke(f, zz, xx)
  IN  IF Threw(r.out)
      THEN [out |-> <<"future", 0>>, fut |-> FutureVoid(ctor_void_exception(r.out[2])), z |-> r.z]
      ELSE [out |-> <<"future", 0>>, fut |-> FutureVoid(ctor_void), z |-> r.z]

\* overload selection on std::is_void<Result>
try_invoke(f, zz, xx) ==
  IF f[2] = "void" THEN try_invoke_void(f, zz, xx) ELSE try_invoke_T(f, zz, xx)

\* ------------------------------------------------------------ inline_executor
\* inline_executor.hpp is included by saxpy.cpp; every operation runs on the
\* calling thread before it returns.

\* sync_execute(f): f(), nothing is returned, a failure of f propagates
sync_execute(f, zz, xx) ==
  LET r == Invoke(f, zz, xx)
  IN  [out |-> IF Threw(r.out) THEN r.out ELSE <<"void", 0>>, z |-> r.z]

\* async_execute(f): the future try_invoke(f) makes
async_execute(f, zz, xx) == try_invoke(f, zz, xx)

\* An indexed callable is <<"indexed", "void", failAt, e>>: the lambda
\* [&](size_t i, auto, auto){ z[i] = a * x[i] + y[i]; }, which at index failAt
\* (-1: at no index) raises the exception e instead.
InvokeIndexed(g, i, zz, xx) ==
  IF g[3] = i THEN [out |-> <<"throw_E", g[4]>>, z |-> zz]
              ELSE [out |-> <<"void", 0>>, z |-> saxpy_body(i, zz, xx)]

\* Objects a bulk call creates are numbered in the order of their creation in
\* that call: the object factory_a returns is 1, the one factory_b returns 2.
\* An event of the call is <<what, index, object a, object b>>.
factory_a_event == <<"fa", -1, 1, 0>>
factory_b_event == <<"fb", -1, 0, 2>>

\* Invocation i handed copies made for it: what the bulk calls do not do.
element_args_copied(i, ra, rb) == <<2 * i + 3, 2 * i + 4>>

\* The two objects invocation i receives references to.
element_args(i, ra, rb) == <<ra, rb>>

\* for(i = 0; i < n; ++i) f(i, shared_a, shared_b): the first failure ends the loop
RECURSIVE bulk_loop(_, _, _, _, _, _, _, _)
bulk_loop(g, i, n, ra, rb, zz, xx, lg) ==
  IF i >= n
  THEN [out |-> <<"void", 0>>, z |-> zz, log |-> lg]
  ELSE LET args == element_args(i, ra, rb)
           r == InvokeIndexed(g, i, zz, xx)
           lg2 == Append(lg, <<"f", i, args[1], args[2]>>)
       IN  IF Threw(r.out)
           THEN [out |-> r.out, z |-> r.z, log |-> lg2]
           ELSE bulk_loop(g, i + 1, n, ra, rb, r.z, xx, lg2)

\* A bulk call whose loop starts at index 1: what bulk_sync_execute does not do.
bulk_sync_execute_from_one(g, n, zz, xx) ==
  bulk_loop(g, 1, n, factory_a_event[3], factory_b_event[4], zz, xx,
            <<factory_a_event, factory_b_event>>)

\* bulk_sync_execute(f, n, factory_a, factory_b): both factories, then the loop
bulk_sync_execute(g, n, zz, xx) ==
  bulk_loop(g, 0, n, factory_a_event[3], factory_b_event[4], zz, xx,
            <<factory_a_event, factory_b_event>>)

\* bulk_async_execute(f, n, factory_a, factory_b): the same work, a failure
\* captured in the always_ready_future<void> returned
bulk_async_execute(g, n, zz, xx) ==
  LET r == bulk_sync_execute(g, n, zz, xx)
  IN  [out |-> <<"future", 0>>,
       fut |-> IF Threw(r.out) THEN FutureVoid(ctor_void_exception(r.out[2]))
                               ELSE FutureVoid(ctor_void),
       z |-> r.z, log |-> r.log]

\* ------------------------------------------------------------------ saxpy.cpp
\* for(size_t i = 0; i < x.size(); ++i) z[i] = a * x[i] + y[i];
RECURSIVE for_loop_saxpy_from(_, _, _)
for_loop_saxpy_from(i, zz, xx) ==
  IF i < Len(xx) THEN for_loop_saxpy_from(i + 1, saxpy_body(i, zz, xx), xx) ELSE zz

for_loop_saxpy(zz, xx) == for_loop_saxpy_from(0, zz, xx)

\* for(...) exec.sync_execute([&]{ z[i] = a * x[i] + y[i]; });
RECURSIVE for_loop_sync_execute_saxpy_from(_, _, _)
for_loop_sync_execute_saxpy_from(i, zz, xx) ==
  IF i < Len(xx)
  THEN for_loop_sync_execute_saxpy_from(
         i + 1, sync_execute(<<"saxpy", "void", i>>, zz, xx).z, xx)
  ELSE zz

\* The loop started at i = 1: what for_loop_sync_execute_saxpy does not do.
for_loop_sync_execute_saxpy_from_one(zz, xx) ==
  for_loop_sync_execute_saxpy_from(1, zz, xx)

for_loop_sync_execute_saxpy(zz, xx) == for_loop_sync_execute_saxpy_from(0, zz, xx)

\* for(...) exec.async_execute([&]{ z[i] = a * x[i] + y[i]; }).wait();
\* The future is a temporary: wait() is called on it and it is dropped.
RECURSIVE for_loop_async_execute_saxpy_from(_, _, _)
for_loop_async_execute_saxpy_from(i, zz, xx) ==
  IF i < Len(xx)
  THEN LET r == async_execute(<<"saxpy", "void", i>>, zz, xx)
           waited == wait_void(r.fut.exception_)
       IN  for_loop_async_execute_saxpy_from(i + 1, r.z, xx)
  ELSE zz

for_loop_async_execute_saxpy(zz, xx) == for_loop_async_execute_saxpy_from(0, zz, xx)

\* exec.bulk_sync_execute([&](size_t i, auto, auto){...}, x.size(), ignore, ignore);
for_loop_bulk_sync_execute_saxpy(zz, xx) ==
  bulk_sync_execute(<<"indexed", "void", -1, 0>>, Len(xx), zz, xx)

\* exec.bulk_async_execute([&](size_t i, auto, auto){...}, x.size(), ignore, ignore).wait();
for_loop_bulk_async_execute_saxpy(zz, xx) ==
  bulk_async_execute(<<"indexed", "void", -1, 0>>, Len(xx), zz, xx)

\* -------------------------------------------------------------- the client
Callables ==
  {<<"const", "T", v>> : v \in Values}
    \cup {<<"noop", "void", 0>>}
    \cup {<<"raise", R, e>> : R \in {"T", "void"}, e \in Errors}

\* the indexed callables for a bulk call of n invocations
IndexedCallables(n) ==
  {<<"indexed", "void", -1, 0>>}
    \cup {<<"indexed", "void", k, e>> : k \in 0..(n - 1), e \in Errors}

NoCallable == <<"none", "void", 0>>

Init ==
  /\ kind = "none"
  /\ value_ = NoFuture.value_
  /\ exception_ = NoFuture.exception_
  /\ made = NoFuture
  /\ ngets = 0
  /\ nwaits = 0
  /\ lastop = "none"
  /\ last = <<"void", 0>>
  /\ via = "none"
  /\ by = NoCallable
  /\ fn = NoCallable
  /\ x \in UNION {[1..n -> XValues] : n \in 0..MaxN}
  /\ z = [i \in 1..Len(x) |-> 0]       \* std::vector<float> z(n)
  /\ log = <<>>

\* a terminated program makes no further call
Alive == last[1] # "trap"

\* the client now holds the future fut, newly made by the call op of f
SetFuture(fut, op, f) ==
  /\ via' = op
  /\ by' = f
  /\ kind' = fut.kind
  /\ value_' = fut.value_
  /\ exception_' = fut.exception_
  /\ made' = fut
  /\ ngets' = 0
  /\ nwaits' = 0

Constructed(fut) ==
  /\ SetFuture(fut, "ctor", NoCallable)
  /\ lastop' = "ctor"
  /\ last' = <<"future", 0>>
  /\ fn' = NoCallable
  /\ log' = <<>>
  /\ UNCHANGED <<x, z>>

\* The client holds at most one future, the one its most recent constructing
\* call returned; it lets go of it (~always_ready_future) before the calls
\* that return none.
Discard ==
  /\ Alive
  /\ kind # "none"
  /\ SetFuture(NoFuture, "none", NoCallable)
  /\ lastop' = "discard"
  /\ last' = <<"void", 0>>
  /\ fn' = NoCallable
  /\ log' = <<>>
  /\ UNCHANGED <<x, z>>

ConstructValue ==
  /\ Alive
  /\ \E v \in Values : Constructed(FutureT(ctor_value(v)))

ConstructError ==
  /\ Alive
  /\ \E e \in Errors : Constructed(FutureT(ctor_exception(e)))

ConstructVoid ==
  /\ Alive
  /\ Constructed(FutureVoid(ctor_void))

ConstructVoidError ==
  /\ Alive
  /\ \E e \in Errors : Constructed(FutureVoid(ctor_void_exception(e)))

GetT ==
  /\ Alive
  /\ kind = "T"
  /\ ngets + nwaits < MaxCalls
  /\ \E o \in get_T(value_).outs : last' = o
  /\ value_' = get_T(value_).after
  /\ ngets' = ngets + 1
  /\ lastop' = "get"
  /\ fn' = NoCallable
  /\ log' = <<>>
  /\ UNCHANGED <<kind, exception_, made, via, by, nwaits, x, z>>

GetVoid ==
  /\ Alive
  /\ kind = "void"
  /\ ngets + nwaits < MaxCalls
  /\ last' = get_void(exception_)
  /\ ngets' = ngets + 1
  /\ lastop' = "get"
  /\ fn' = NoCallable
  /\ log' = <<>>
  /\ UNCHANGED <<kind, value_, exception_, made, via, by, nwaits, x, z>>

Wait ==
  /\ Alive
  /\ kind # "none"
  /\ ngets + nwaits < MaxCalls
  /\ value_' = (IF kind = "T" THEN wait_T(value_) ELSE value_)
  /\ exception_' = (IF kind = "void" THEN wait_void(exception_) ELSE exception_)
  /\ last' = <<"void", 0>>
  /\ nwaits' = nwaits + 1
  /\ lastop' = "wait"
  /\ fn' = NoCallable
  /\ log' = <<>>
  /\ UNCHANGED <<kind, made, via, by, ngets, x, z>>

TryInvoke ==
  /\ Alive
  /\ \E f \in Callables :
       LET r == try_invoke(f, z, x)
       IN  /\ SetFuture(r.fut, "try_invoke", f)
           /\ last' = r.out
           /\ z' = r.z
           /\ fn' = f
  /\ lastop' = "try_invoke"
  /\ log' = <<>>
  /\ UNCHANGED x

SyncExecute ==
  /\ Alive
  /\ kind = "none"
  /\ \E f \in Callables :
       LET r == sync_execute(f, z, x)
       IN  /\ last' = r.out
           /\ z' = r.z
           /\ fn' = f
  /\ lastop' = "sync_execute"
  /\ log' = <<>>
  /\ UNCHANGED <<kind, value_, exception_, made, via, by, ngets, nwaits, x>>

AsyncExecute ==
  /\ Alive
  /\ \E f \in Callables :
       LET r == async_execute(f, z, x)
       IN  /\ SetFuture(r.fut, "async_execute", f)
           /\ last' = r.out
           /\ z' = r.z
           /\ fn' = f
  /\ lastop' = "async_execute"
  /\ log' = <<>>
  /\ UNCHANGED x

BulkSyncExecute ==
  /\ Alive
  /\ kind = "none"
  /\ \E n \in 0..Len(x) : \E g \in IndexedCallables(n) :
       LET r == bulk_sync_execute(g, n, z, x)
       IN  /\ last' = r.out
           /\ z' = r.z
           /\ log' = r.log
           /\ fn' = g \o <<n>>
  /\ lastop' = "bulk_sync_execute"
  /\ UNCHANGED <<kind, value_, exception_, made, via, by, ngets, nwaits, x>>

BulkAsyncExecute ==
  /\ Alive
  /\ \E n \in 0..Len(x) : \E g \in IndexedCallables(n) :
       LET r == bulk_async_execute(g, n, z, x)
       IN  /\ SetFuture(r.fut, "bulk_async_execute", g \o <<n>>)
           /\ last' = r.out
           /\ z' = r.z
           /\ log' = r.log
           /\ fn' = g \o <<n>>
  /\ lastop' = "bulk_async_execute"
  /\ UNCHANGED x

\* the five functions main() times, each followed by assert(z == reference)
ForLoopSaxpy ==
  /\ Alive
  /\ kind = "none"
  /\ z' = for_loop_saxpy(z, x)
  /\ lastop' = "for_loop_saxpy"
  /\ last' = <<"void", 0>>
  /\ fn' = NoCallable
  /\ log' = <<>>
  /\ UNCHANGED <<kind, value_, exception_, made, via, by, ngets, nwaits, x>>

ForLoopSyncExecuteSaxpy ==
  /\ Alive
  /\ kind = "none"
  /\ z' = for_loop_sync_execute_saxpy(z, x)
  /\ lastop' = "for_loop_sync_execute_saxpy"
  /\ last' = <<"void", 0>>
  /\ fn' = NoCallable
  /\ log' = <<>>
  /\ UNCHANGED <<kind, value_, exception_, made, via, by, ngets, nwaits, x>>

ForLoopAsyncExecuteSaxpy ==
  /\ Alive
  /\ kind = "none"
  /\ z' = for_loop_async_execute_saxpy(z, x)
  /\ lastop' = "for_loop_async_execute_saxpy"
  /\ last' = <<"void", 0>>
  /\ fn' = NoCallable
  /\ log' = <<>>
  /\ UNCHANGED <<kind, value_, exception_, made, via, by, ngets, nwaits, x>>

ForLoopBulkSyncExecuteSaxpy ==
  /\ Alive
  /\ kind = "none"
  /\ LET r == for_loop_bulk_sync_execute_saxpy(z, x)
     IN  /\ z' = r.z
         /\ log' = r.log
         /\ last' = r.out
  /\ lastop' = "for_loop_bulk_sync_execute_saxpy"
  /\ fn' = <<"indexed", "void", -1, 0, Len(x)>>
  /\ UNCHANGED <<kind, value_, exception_, made, via, by, ngets, nwaits, x>>

ForLoopBulkAsyncExecuteSaxpy ==
  /\ Alive
  /\ kind = "none"
  /\ LET r == for_loop_bulk_async_execute_saxpy(z, x)
     IN  /\ z' = r.z
         /\ log' = r.log
  /\ lastop' = "for_loop_bulk_async_execute_saxpy"
  /\ last' = <<"void", 0>>
  /\ fn' = <<"indexed", "void", -1, 0, Len(x)>>
  /\ UNCHANGED <<kind, value_, exception_, made, via, by, ngets, nwaits, x>>

Next ==
  \/ ConstructValue
  \/ ConstructError
  \/ ConstructVoid
  \/ ConstructVoidError
  \/ Discard
  \/ GetT
  \/ GetVoid
  \/ Wait
  \/ TryInvoke
  \/ SyncExecute
  \/ AsyncExecute
  \/ BulkSyncExecute
  \/ BulkAsyncExecute
  \/ ForLoopSaxpy
  \/ ForLoopSyncExecuteSaxpy
  \/ ForLoopAsyncExecuteSaxpy
  \/ ForLoopBulkSyncExecuteSaxpy
  \/ ForLoopBulkAsyncExecuteSaxpy

Spec == Init /\ [][Next]_vars

\* ------------------------------------------------------------------ claims
ErrorHeld == IF kind = "T" THEN made.value_[1] = "exception_ptr"
                           ELSE kind = "void" /\ made.exception_ # <<>>
ErrorOf == IF kind = "T" THEN made.value_[2] ELSE made.exception_[1]

\* C1: the first get() on a future constructed from the value v returns v,
\* whatever number of wait() calls came before it.
C1_FirstGetReturnsValue ==
  (lastop = "get" /\ kind = "T" /\ made.value_[1] = "T" /\ ngets = 1)
    => last = <<"value", made.value_[2]>>

\* C2: get() on a non-void future constructed from the captured failure e
\* returns no value and raises e itself, not an object wrapping it.
C2_GetRaisesExactFailure ==
  (lastop = "get" /\ kind = "T" /\ made.value_[1] = "exception_ptr")
    => last = <<"throw_E", made.value_[2]>>

\* C3: get() on the void future raises exactly when the future was constructed
\* from a captured error e, and then raises e; otherwise it returns normally.
C3_VoidGetRaisesIffError ==
  (lastop = "get" /\ kind = "void")
    => last = (IF made.exception_ # <<>> THEN <<"throw_E", made.exception_[1]>>
                                         ELSE <<"void", 0>>)

\* C4: wait() returns normally and leaves the future as it was, so a get()
\* after any number of wait() calls has the outcome it has without them.
C4_WaitStep ==
  lastop' = "wait"
    => /\ last' = <<"void", 0>>
       /\ <<kind', value_', exception_'>> = <<kind, value_, exception_>>

C4_GetAfterWait ==
  (lastop = "get" /\ ngets = 1)
    => /\ kind = "T" => last \in get_T(made.value_).outs
       /\ kind = "void" => last = get_void(made.exception_)

C4_WaitIsNoOp == [][C4_WaitStep]_vars /\ []C4_GetAfterWait

C4_Witness ==
  lastop = "get" /\ ngets = 1 /\ nwaits >= 2 /\ kind = "T" /\ ErrorHeld

\* C5: try_invoke(f) returns normally for every f, and the first get() on the
\* future it returns has the outcome of f(): the value f returned, a normal
\* return when f returned nothing, the failure f raised.
C5_TryInvokeRoundTrip ==
  /\ lastop = "try_invoke" => last = <<"future", 0>>
  /\ (via = "try_invoke" /\ lastop = "get" /\ ngets = 1)
       => last = Invoke(by, z, x).out

\* C6: a failure raised by the callable does not escape from async_execute or
\* bulk_async_execute, is held by the future returned, is not raised by wait()
\* and is raised by get(); from sync_execute and bulk_sync_execute the failure
\* itself is raised at the call site.
Raises(f) == f[1] = "raise" \/ (f[1] = "indexed" /\ f[3] # -1)
RaisedBy(f) == IF f[1] = "raise" THEN f[3] ELSE f[4]

C6_PropagationPolicy ==
  /\ lastop \in {"async_execute", "bulk_async_execute"}
       => /\ last = <<"future", 0>>
          /\ Raises(fn) => (ErrorHeld /\ ErrorOf = RaisedBy(fn))
  /\ (via \in {"async_execute", "bulk_async_execute"} /\ Raises(by))
       => /\ lastop = "wait" => last = <<"void", 0>>
          /\ lastop = "get" => (Threw(last) /\ last[2] = RaisedBy(by))
  /\ (lastop \in {"sync_execute", "bulk_sync_execute"} /\ Raises(fn))
       => last = <<"throw_E", RaisedBy(fn)>>

C6_Witness ==
  /\ via = "async_execute" /\ Raises(by) /\ by[2] = "T"
  /\ lastop = "get" /\ nwaits >= 1

\* C7: a bulk_sync_execute call of n invocations none of which fails has, when
\* it returns, invoked f once for each index of [0, n) and no other time, and
\* each factory once; also for n = 0.
IsBulkSync == lastop \in {"bulk_sync_execute", "for_loop_bulk_sync_execute_saxpy"}
EventsOf(what) == {k \in 1..Len(log) : log[k][1] = what}

C7_BulkSyncCounts ==
  (IsBulkSync /\ ~Raises(fn))
    => /\ last = <<"void", 0>>
       /\ Cardinality(EventsOf("fa")) = 1
       /\ Cardinality(EventsOf("fb")) = 1
       /\ Cardinality(EventsOf("f")) = fn[5]
       /\ \A i \in 0..(fn[5] - 1) :
            Cardinality({k \in EventsOf("f") : log[k][2] = i}) = 1

C7_Witness ==
  lastop = "bulk_sync_execute" /\ ~Raises(fn) /\ fn[5] = MaxN

\* C8: in every bulk call both factories have run before the first element
\* invocation, and every element invocation receives the object factory_a
\* made and the object factory_b made.
IsBulk ==
  lastop \in {"bulk_sync_execute", "bulk_async_execute",
              "for_loop_bulk_sync_execute_saxpy", "for_loop_bulk_async_execute_saxpy"}

C8_FactoriesFirstSameObjects ==
  IsBulk
    => /\ Len(log) >= 2
       /\ log[1][1] = "fa"
       /\ log[2][1] = "fb"
       /\ \A k \in 3..Len(log) :
            /\ log[k][1] = "f"
            /\ log[k][3] = log[1][3]
            /\ log[k][4] = log[2][4]

C8_Witness ==
  lastop = "bulk_async_execute" /\ ~Raises(fn) /\ Len(log) = MaxN + 2

\* C9: each of the four executor loops leaves z equal to what the plain for
\* loop computes from x.
Reference == for_loop_saxpy([i \in 1..Len(x) |-> 0], x)

C9_SameAsForLoop ==
  lastop \in {"for_loop_sync_execute_saxpy", "for_loop_async_execute_saxpy",
              "for_loop_bulk_sync_execute_saxpy", "for_loop_bulk_async_execute_saxpy"}
    => z = Reference

C9_Witness ==
  /\ lastop = "for_loop_sync_execute_saxpy"
  /\ Len(x) = MaxN
  /\ \E i, j \in 1..Len(z) : z[i] # z[j]

\* C10: after any get() and wait() calls the future holds the alternative it was
\* constructed with; every get() on an error-holding future raises the stored
\* error, every get() on an error-free void future returns normally.
C10_GetDoesNotInvalidate ==
  /\ kind = "T" => /\ value_[1] = made.value_[1]
                   /\ value_[1] = "exception_ptr" => value_ = made.value_
  /\ kind = "void" => exception_ = made.exception_
  /\ (lastop = "get" /\ ErrorHeld) => (Threw(last) /\ last[2] = ErrorOf)
  /\ (lastop = "get" /\ kind = "void" /\ ~ErrorHeld) => last = <<"void", 0>>

C10_Witness ==
  lastop = "get" /\ ngets >= 2 /\ nwaits >= 1 /\ kind = "T" /\ ErrorHeld

====
